---- MODULE Spec2Model ----
(***************************************************************************)
(* Semantic JSON comparison of the n8n Terraform provider                  *)
(* (internal/provider/json_semantic_equality.go).                          *)
(*                                                                         *)
(* A JSON text is a sequence of lexemes (punctuation, one whitespace       *)
(* lexeme, literals).  json.Unmarshal is a recursive-descent parser over   *)
(* that sequence, producing the tree Go builds in an interface{}:          *)
(* nil, bool, float64, string, []interface{}, map[string]interface{}.      *)
(* normalizeForComparison and reflect.DeepEqual work on those trees.       *)
(*                                                                         *)
(* The source file holds the package twice: lines 1-160 with               *)
(* normalizeForComparison, lines 162-258 an earlier jsonSemanticEqual that *)
(* compares the parsed trees as they are.  The model is of the first, the  *)
(* one the null-value and optional-field tests are written for.            *)
(***************************************************************************)
EXTENDS Integers, Sequences, FiniteSets, TLC

VARIABLES call, a, b, result, out, err, req, resp, third, results,
          resourceReq, resourceResp, apiFails, apiCalls, server, answer

\* what the calls on texts and on one attribute read and write, and what
\* the calls on the whole resource do
textVars == <<b, result, out, err, req, resp, third, results>>

resourceVars == <<resourceReq, resourceResp, apiFails, apiCalls, server, answer>>

vars == <<call, a, textVars, resourceVars>>

(***************************************************************************)
(* Go values held in an interface{} after json.Unmarshal.  kind is the     *)
(* dynamic type; the payload is b (bool), n (float64), s (string),         *)
(* xs (slice) or m (map), the other fields keeping their blank value.      *)
(***************************************************************************)
EmptyMap == [k \in {} |-> 0]

Nil == [kind |-> "nil", b |-> FALSE, n |-> 0, s |-> "", xs |-> <<>>,
        m |-> EmptyMap]

JBool(x) == [Nil EXCEPT !.kind = "bool", !.b = x]

JNum(x) == [Nil EXCEPT !.kind = "float64", !.n = x]

JStr(x) == [Nil EXCEPT !.kind = "string", !.s = x]

JArr(items) == [Nil EXCEPT !.kind = "slice", !.xs = items]

JObj(entries) == [Nil EXCEPT !.kind = "map", !.m = entries]

(***************************************************************************)
(* Lexemes.  A number lexeme denotes the float64 it parses to, so "1" and  *)
(* "1.0" denote the same value; a string lexeme denotes its content.       *)
(***************************************************************************)
WS == " "

NumberLiteral == ("0" :> 0) @@ ("1" :> 1) @@ ("1.0" :> 1) @@ ("2" :> 2)

\* the number lexemes with no fraction and no exponent
IntegerLiteral == {"0", "1", "2"}

StringLiteral ==
    ("\"a\"" :> "a") @@ ("\"b\"" :> "b") @@ ("\"key\"" :> "key")
    @@ ("\"value\"" :> "value") @@ ("\"id\"" :> "id") @@ ("\"main\"" :> "main")
    @@ ("\"parameters\"" :> "parameters") @@ ("\"executeOnce\"" :> "executeOnce")
    @@ ("\"disabled\"" :> "disabled") @@ ("\"\"" :> "") @@ ("\"ID\"" :> "ID")
    @@ ("\"type\"" :> "type") @@ ("\"typeVersion\"" :> "typeVersion")
    @@ ("\"position\"" :> "position") @@ ("\"name\"" :> "name")
    @@ ("\"credentials\"" :> "credentials")

(***************************************************************************)
(* json.Unmarshal into an interface{}.                                     *)
(***************************************************************************)
\* variant: whitespace is not skipped
skipWs_NotSkipped(toks) == toks

RECURSIVE skipWs(_)
skipWs(toks) ==
    IF toks # <<>> /\ Head(toks) = WS THEN skipWs(Tail(toks)) ELSE toks

SyntaxError == [ok |-> FALSE, val |-> Nil, rest |-> <<>>]

Parsed(v, rest) == [ok |-> TRUE, val |-> v, rest |-> rest]

RECURSIVE parseValue(_)
RECURSIVE parseElements(_, _)
RECURSIVE parseMembers(_, _)

parseValue(toks0) ==
    LET toks == skipWs(toks0) IN
    IF toks = <<>> THEN SyntaxError
    ELSE LET h == Head(toks)
             t == Tail(toks)
         IN CASE h = "null" -> Parsed(Nil, t)
              [] h = "true" -> Parsed(JBool(TRUE), t)
              [] h = "false" -> Parsed(JBool(FALSE), t)
              [] h \in DOMAIN NumberLiteral -> Parsed(JNum(NumberLiteral[h]), t)
              [] h \in DOMAIN StringLiteral -> Parsed(JStr(StringLiteral[h]), t)
              [] h = "[" ->
                   LET t2 == skipWs(t) IN
                   IF t2 # <<>> /\ Head(t2) = "]"
                   THEN Parsed(JArr(<<>>), Tail(t2))
                   ELSE parseElements(t, <<>>)
              [] h = "{" ->
                   LET t2 == skipWs(t) IN
                   IF t2 # <<>> /\ Head(t2) = "}"
                   THEN Parsed(JObj(EmptyMap), Tail(t2))
                   ELSE parseMembers(t, EmptyMap)
              [] OTHER -> SyntaxError

parseElements(toks, acc) ==
    LET r == parseValue(toks) IN
    IF ~r.ok THEN SyntaxError
    ELSE LET t == skipWs(r.rest) IN
         IF t = <<>> THEN SyntaxError
         ELSE IF Head(t) = "," THEN parseElements(Tail(t), Append(acc, r.val))
         ELSE IF Head(t) = "]" THEN Parsed(JArr(Append(acc, r.val)), Tail(t))
         ELSE SyntaxError

parseMembers(toks, acc) ==
    LET t == skipWs(toks) IN
    IF t = <<>> \/ Head(t) \notin DOMAIN StringLiteral THEN SyntaxError
    ELSE LET key == StringLiteral[Head(t)]
             t2 == skipWs(Tail(t))
         IN IF t2 = <<>> \/ Head(t2) # ":" THEN SyntaxError
            ELSE LET r == parseValue(Tail(t2)) IN
                 IF ~r.ok THEN SyntaxError
                 ELSE LET m == (key :> r.val) @@ acc
                          t3 == skipWs(r.rest)
                      IN IF t3 = <<>> THEN SyntaxError
                         ELSE IF Head(t3) = "," THEN parseMembers(Tail(t3), m)
                         ELSE IF Head(t3) = "}" THEN Parsed(JObj(m), Tail(t3))
                         ELSE SyntaxError

Unmarshal(text) ==
    LET r == parseValue(text) IN
    IF r.ok /\ skipWs(r.rest) = <<>>
    THEN [err |-> FALSE, val |-> r.val]
    ELSE [err |-> TRUE, val |-> Nil]

(***************************************************************************)
(* isOptionalNodeField, normalizeForComparison.                            *)
(***************************************************************************)
optionalFields ==
    {"executeOnce", "alwaysOutputData", "retryOnFail", "onError",
     "continueOnFail", "disabled"}

\* variant: "disabled" is missing from the list
isOptionalNodeField_WithoutDisabled(key) == key \in optionalFields \ {"disabled"}

isOptionalNodeField(key) == key \in optionalFields

RECURSIVE normalizeForComparison(_)
RECURSIVE normalizeItems(_)

\* variant: null values are not skipped
normalizeForComparison_KeepsNulls(data) ==
    CASE data.kind = "map" ->
           LET v == data.m
               kept == {key \in DOMAIN v : ~isOptionalNodeField(key)}
               res == [key \in kept |-> normalizeForComparison(v[key])]
           IN IF kept = {} THEN Nil ELSE JObj(res)
      [] data.kind = "slice" ->
           LET res == normalizeItems(data.xs)
           IN IF Len(res) = 0 THEN Nil ELSE JArr(res)
      [] OTHER -> data

normalizeForComparison_EmptyMapKept(data) ==
    CASE data.kind = "map" ->
           LET v == data.m
               kept == {key \in DOMAIN v :
                          v[key].kind # "nil" /\ ~isOptionalNodeField(key)}
               res == [key \in kept |-> normalizeForComparison(v[key])]
           IN JObj(res)
      [] data.kind = "slice" ->
           LET res == normalizeItems(data.xs)
           IN IF Len(res) = 0 THEN Nil ELSE JArr(res)
      [] OTHER -> data

normalizeForComparison(data) ==
    CASE data.kind = "map" ->
           LET v == data.m
               kept == {key \in DOMAIN v :
                          v[key].kind # "nil" /\ ~isOptionalNodeField(key)}
               res == [key \in kept |-> normalizeForComparison(v[key])]
           IN IF kept = {} THEN Nil ELSE JObj(res)
      [] data.kind = "slice" ->
           LET res == normalizeItems(data.xs)
           IN IF Len(res) = 0 THEN Nil ELSE JArr(res)
      [] OTHER -> data

normalizeItems_NilKept(items) ==
    [i \in 1..Len(items) |-> normalizeForComparison(items[i])]

normalizeItems(items) ==
    IF items = <<>> THEN <<>>
    ELSE LET normalized == normalizeForComparison(Head(items)) IN
         IF normalized.kind # "nil"
         THEN <<normalized>> \o normalizeItems(Tail(items))
         ELSE normalizeItems(Tail(items))

(***************************************************************************)
(* reflect.DeepEqual on the trees above.                                   *)
(***************************************************************************)
RECURSIVE DeepEqual(_, _)

\* variant: only the first slice's indices are compared
DeepEqual_FirstIndices(x, y) ==
    IF x.kind # y.kind THEN FALSE
    ELSE CASE x.kind = "nil" -> TRUE
           [] x.kind = "map" ->
                /\ DOMAIN x.m = DOMAIN y.m
                /\ \A k \in DOMAIN x.m : DeepEqual(x.m[k], y.m[k])
           [] x.kind = "slice" ->
                /\ Len(x.xs) <= Len(y.xs)
                /\ \A i \in 1..Len(x.xs) : DeepEqual(x.xs[i], y.xs[i])
           [] x.kind = "bool" -> x.b = y.b
           [] x.kind = "float64" -> x.n = y.n
           [] x.kind = "string" -> x.s = y.s

\* variant: slices are compared without regard to order
DeepEqual_Unordered(x, y) ==
    IF x.kind # y.kind THEN FALSE
    ELSE CASE x.kind = "nil" -> TRUE
           [] x.kind = "map" ->
                /\ DOMAIN x.m = DOMAIN y.m
                /\ \A k \in DOMAIN x.m : DeepEqual(x.m[k], y.m[k])
           [] x.kind = "slice" ->
                /\ Len(x.xs) = Len(y.xs)
                /\ \A i \in 1..Len(x.xs) :
                      \E j \in 1..Len(y.xs) : DeepEqual(x.xs[i], y.xs[j])
                /\ \A j \in 1..Len(y.xs) :
                      \E i \in 1..Len(x.xs) : DeepEqual(x.xs[i], y.xs[j])
           [] x.kind = "bool" -> x.b = y.b
           [] x.kind = "float64" -> x.n = y.n
           [] x.kind = "string" -> x.s = y.s

DeepEqual_CommonIndices(x, y) ==
    IF x.kind # y.kind THEN FALSE
    ELSE CASE x.kind = "nil" -> TRUE
           [] x.kind = "map" ->
                /\ DOMAIN x.m = DOMAIN y.m
                /\ \A k \in DOMAIN x.m : DeepEqual(x.m[k], y.m[k])
           [] x.kind = "slice" ->
                \A i \in 1..Len(x.xs) :
                    i <= Len(y.xs) => DeepEqual(x.xs[i], y.xs[i])
           [] x.kind = "bool" -> x.b = y.b
           [] x.kind = "float64" -> x.n = y.n
           [] x.kind = "string" -> x.s = y.s

DeepEqual(x, y) ==
    IF x.kind # y.kind THEN FALSE
    ELSE CASE x.kind = "nil" -> TRUE
           [] x.kind = "map" ->
                /\ DOMAIN x.m = DOMAIN y.m
                /\ \A k \in DOMAIN x.m : DeepEqual(x.m[k], y.m[k])
           [] x.kind = "slice" ->
                /\ Len(x.xs) = Len(y.xs)
                /\ \A i \in 1..Len(x.xs) : DeepEqual(x.xs[i], y.xs[i])
           [] x.kind = "bool" -> x.b = y.b
           [] x.kind = "float64" -> x.n = y.n
           [] x.kind = "string" -> x.s = y.s

\* variant: the second text's parse error is not checked
jsonSemanticEqual_SecondErrorUnchecked(ta, tb) ==
    LET objA == Unmarshal(ta)
        objB == Unmarshal(tb)
    IN IF objA.err THEN FALSE
       ELSE DeepEqual(normalizeForComparison(objA.val),
                      normalizeForComparison(objB.val))

jsonSemanticEqual(ta, tb) ==
    LET objA == Unmarshal(ta)
        objB == Unmarshal(tb)
    IN IF objA.err THEN FALSE
       ELSE IF objB.err THEN FALSE
       ELSE DeepEqual(normalizeForComparison(objA.val),
                      normalizeForComparison(objB.val))

(***************************************************************************)
(* json.Marshal of such a tree: no insignificant whitespace, map keys in   *)
(* sorted order, slices in their own order.  encode is the encoder with    *)
(* its two layout choices left open (whitespace, key order), so that it    *)
(* also writes the differently formatted input texts.                      *)
(***************************************************************************)
SortedKeys ==
    <<"", "ID", "a", "b", "credentials", "disabled", "executeOnce", "id",
      "key", "main", "name", "parameters", "position", "type", "typeVersion",
      "value">>

Reverse(s) == [i \in 1..Len(s) |-> s[Len(s) + 1 - i]]

FormatFloat(x) == CHOOSE tok \in DOMAIN NumberLiteral :
                      NumberLiteral[tok] = x /\ tok \in IntegerLiteral

Quote(s) == CHOOSE tok \in DOMAIN StringLiteral : StringLiteral[tok] = s

RECURSIVE encode(_, _, _)
RECURSIVE encodeElements(_, _, _)
RECURSIVE encodeMembers(_, _, _, _)

encode(v, spaced, reversed) ==
    LET sp == IF spaced THEN <<WS>> ELSE <<>> IN
    CASE v.kind = "nil" -> <<"null">>
      [] v.kind = "bool" -> IF v.b THEN <<"true">> ELSE <<"false">>
      [] v.kind = "float64" -> <<FormatFloat(v.n)>>
      [] v.kind = "string" -> <<Quote(v.s)>>
      [] v.kind = "slice" ->
           <<"[">> \o sp \o encodeElements(v.xs, spaced, reversed) \o <<"]">>
      [] v.kind = "map" ->
           LET order == IF reversed THEN Reverse(SortedKeys) ELSE SortedKeys
               keys == SelectSeq(order, LAMBDA k : k \in DOMAIN v.m)
           IN <<"{">> \o sp \o encodeMembers(v.m, keys, spaced, reversed)
                      \o <<"}">>

encodeElements(items, spaced, reversed) ==
    LET sp == IF spaced THEN <<WS>> ELSE <<>> IN
    IF items = <<>> THEN <<>>
    ELSE encode(Head(items), spaced, reversed)
         \o (IF Len(items) > 1 THEN <<",">> ELSE <<>>) \o sp
         \o encodeElements(Tail(items), spaced, reversed)

encodeMembers(m, keys, spaced, reversed) ==
    LET sp == IF spaced THEN <<WS>> ELSE <<>> IN
    IF keys = <<>> THEN <<>>
    ELSE <<Quote(Head(keys))>> \o sp \o <<":">> \o sp
         \o encode(m[Head(keys)], spaced, reversed)
         \o (IF Len(keys) > 1 THEN <<",">> ELSE <<>>) \o sp
         \o encodeMembers(m, Tail(keys), spaced, reversed)

Marshal(v) == encode(v, FALSE, FALSE)

(***************************************************************************)
(* NormalizeJSON: parse, then marshal again.  A parse error gives the      *)
(* empty string and the error.  json.Marshal cannot fail on a tree that    *)
(* json.Unmarshal built, so its error branch is never taken.               *)
(***************************************************************************)
NormalizeJSON_Normalizes(input) ==
    LET obj == Unmarshal(input) IN
    IF obj.err THEN [out |-> <<>>, err |-> TRUE]
    ELSE [out |-> Marshal(normalizeForComparison(obj.val)), err |-> FALSE]

NormalizeJSON_Unchanged(input) ==
    LET obj == Unmarshal(input) IN
    IF obj.err THEN [out |-> <<>>, err |-> TRUE]
    ELSE [out |-> input, err |-> FALSE]

NormalizeJSON_InputOnError(input) ==
    LET obj == Unmarshal(input) IN
    IF obj.err THEN [out |-> input, err |-> TRUE]
    ELSE [out |-> Marshal(obj.val), err |-> FALSE]

NormalizeJSON(input) ==
    LET obj == Unmarshal(input) IN
    IF obj.err THEN [out |-> <<>>, err |-> TRUE]
    ELSE [out |-> Marshal(obj.val), err |-> FALSE]

(***************************************************************************)
(* A types.String of the plugin framework: null, unknown, or a known       *)
(* string.  ValueString() of a null or unknown value is "".                *)
(***************************************************************************)
StringNull == [null |-> TRUE, unknown |-> FALSE, value |-> <<>>]

StringUnknown == [null |-> FALSE, unknown |-> TRUE, value |-> <<>>]

StringValue(text) == [null |-> FALSE, unknown |-> FALSE, value |-> text]

IsNull(v) == v.null

IsUnknown(v) == v.unknown

ValueString(v) == v.value

(***************************************************************************)
(* PlanModifyString of the JSONSemanticEquality plan modifier.  The        *)
(* response starts out holding the request's plan value; the function      *)
(* gives the plan value the response holds when the modifier returns.      *)
(***************************************************************************)
PlanModifyString_StateForUnsetConfig(request) ==
    IF IsNull(request.StateValue) \/ IsUnknown(request.StateValue)
    THEN request.PlanValue
    ELSE IF IsNull(request.ConfigValue) \/ IsUnknown(request.ConfigValue)
    THEN request.StateValue
    ELSE IF IsNull(request.PlanValue) \/ IsUnknown(request.PlanValue)
    THEN request.PlanValue
    ELSE LET stateJSON == ValueString(request.StateValue)
             configJSON == ValueString(request.ConfigValue)
         IN IF stateJSON = configJSON THEN request.PlanValue
            ELSE IF jsonSemanticEqual(stateJSON, configJSON)
                 THEN StringValue(stateJSON)
                 ELSE request.PlanValue

PlanModifyString_AlwaysState(request) ==
    IF IsNull(request.StateValue) \/ IsUnknown(request.StateValue)
    THEN request.PlanValue
    ELSE IF IsNull(request.ConfigValue) \/ IsUnknown(request.ConfigValue)
    THEN request.PlanValue
    ELSE IF IsNull(request.PlanValue) \/ IsUnknown(request.PlanValue)
    THEN request.PlanValue
    ELSE StringValue(ValueString(request.StateValue))

PlanModifyString(request) ==
    IF IsNull(request.StateValue) \/ IsUnknown(request.StateValue)
    THEN request.PlanValue
    ELSE IF IsNull(request.ConfigValue) \/ IsUnknown(request.ConfigValue)
    THEN request.PlanValue
    ELSE IF IsNull(request.PlanValue) \/ IsUnknown(request.PlanValue)
    THEN request.PlanValue
    ELSE LET stateJSON == ValueString(request.StateValue)
             configJSON == ValueString(request.ConfigValue)
         IN IF stateJSON = configJSON THEN request.PlanValue
            ELSE IF jsonSemanticEqual(stateJSON, configJSON)
                 THEN StringValue(stateJSON)
                 ELSE request.PlanValue

(***************************************************************************)
(* The workflow resource (workflowResourceModel) as Terraform holds it in  *)
(* a state or a plan: every attribute null, unknown or known.  Strings are *)
(* written as lexeme sequences like the JSON texts.  Settings is a nested  *)
(* attribute; read into the Go model it is a *settingsResourceModel, nil   *)
(* for a null value, and an unknown value cannot be read into it.          *)
(***************************************************************************)
BoolValue(x) == [null |-> FALSE, unknown |-> FALSE, value |-> x]

Int64Value(x) == [null |-> FALSE, unknown |-> FALSE, value |-> x]

DefaultSettings ==
    [SaveExecutionProgress |-> BoolValue(TRUE),
     SaveManualExecutions |-> BoolValue(TRUE),
     SaveDataErrorExecution |-> StringValue(<<"all">>),
     SaveDataSuccessExecution |-> StringValue(<<"all">>),
     ExecutionTimeout |-> Int64Value(3600),
     ErrorWorkflow |-> StringValue(<<>>),
     Timezone |-> StringValue(<<"America/New_York">>),
     ExecutionOrder |-> StringValue(<<"v1">>)]

ObjectNull == [null |-> TRUE, unknown |-> FALSE, value |-> DefaultSettings]

ObjectUnknown == [null |-> FALSE, unknown |-> TRUE, value |-> DefaultSettings]

ObjectValue(fields) == [null |-> FALSE, unknown |-> FALSE, value |-> fields]

\* types.String.Equal, types.Bool.Equal, types.Int64.Equal
Equal(x, y) == x = y

NullModel ==
    [ID |-> StringNull, Name |-> StringNull,
     Active |-> [null |-> TRUE, unknown |-> FALSE, value |-> FALSE],
     Nodes |-> StringNull, Connections |-> StringNull,
     Settings |-> ObjectNull, VersionId |-> StringNull,
     CreatedAt |-> StringNull, UpdatedAt |-> StringNull]

\* tfsdk.State and tfsdk.Plan: Raw is null, or holds the attributes
RawNull == [null |-> TRUE, model |-> NullModel]

RawValue(model) == [null |-> FALSE, model |-> model]

\* Plan.Get and State.Get report an error for an unknown settings value
GetHasError(raw) == raw.model.Settings.unknown

SettingsChanged(plan, state) ==
    IF ~plan.Settings.null /\ ~state.Settings.null
    THEN \E f \in DOMAIN DefaultSettings :
             ~Equal(plan.Settings.value[f], state.Settings.value[f])
    ELSE plan.Settings.null # state.Settings.null

JSONChanged_ComparedAsStrings(planned, prior) ==
    /\ ~IsUnknown(planned) /\ ~IsUnknown(prior)
    /\ ValueString(planned) # ValueString(prior)

\* the test made on nodes and on connections
JSONChanged(planned, prior) ==
    /\ ~IsUnknown(planned) /\ ~IsUnknown(prior)
    /\ ~jsonSemanticEqual(ValueString(planned), ValueString(prior))

contentChanged(plan, state) ==
    \/ ~Equal(plan.Name, state.Name)
    \/ ~Equal(plan.Active, state.Active)
    \/ JSONChanged(plan.Nodes, state.Nodes)
    \/ JSONChanged(plan.Connections, state.Connections)
    \/ SettingsChanged(plan, state)

\* ModifyPlan: the plan the response holds when it returns, and whether its
\* diagnostics hold an error
ModifyPlan(request) ==
    IF request.State.null \/ request.Plan.null
    THEN [Plan |-> request.Plan, HasError |-> FALSE]
    ELSE IF GetHasError(request.Plan) \/ GetHasError(request.State)
    THEN [Plan |-> request.Plan, HasError |-> TRUE]
    ELSE LET plan == request.Plan.model
             state == request.State.model
         IN IF ~contentChanged(plan, state)
            THEN [Plan |-> RawValue([plan EXCEPT
                                !.VersionId = state.VersionId,
                                !.UpdatedAt = state.UpdatedAt,
                                !.Nodes = state.Nodes,
                                !.Connections = state.Connections]),
                  HasError |-> FALSE]
            ELSE [Plan |-> request.Plan, HasError |-> FALSE]

(***************************************************************************)
(* json.Unmarshal into []n8n.Node and into map[string]n8n.Connection.  The *)
(* text is checked for syntax first; then every value is stored into the   *)
(* Go type it lands in, and the first value that does not fit is the       *)
(* error returned.  Whether a value fits depends on the value and the type *)
(* alone, so the decoder walks the lexemes, every occurrence of a key      *)
(* written twice included.  null fits every type; a key that names no      *)
(* field is skipped; struct fields are matched whatever the case.          *)
(***************************************************************************)
\* strings.ToLower on the strings of the model
ToLower ==
    [s \in {StringLiteral[tok] : tok \in DOMAIN StringLiteral} |->
        CASE s = "ID" -> "id"
          [] s = "typeVersion" -> "typeversion"
          [] s = "executeOnce" -> "executeonce"
          [] OTHER -> s]

\* the json tags of n8n.Node and the types of its fields
NodeFields ==
    ("parameters" :> "map[string]interface{}") @@ ("type" :> "string")
    @@ ("typeVersion" :> "float64") @@ ("position" :> "[]int")
    @@ ("id" :> "string") @@ ("name" :> "string")
    @@ ("credentials" :> "map[string]interface{}")

ConnectionFields == ("main" :> "json.RawMessage")

\* types that take any value
TakesAny(type) == type \in {"interface{}", "json.RawMessage"}

\* the field of a struct a key is stored into
Field(fields, key) ==
    IF \E tag \in DOMAIN fields : ToLower[tag] = ToLower[key]
    THEN fields[CHOOSE tag \in DOMAIN fields : ToLower[tag] = ToLower[key]]
    ELSE "interface{}"

\* the type the value of an object's key is stored into
MemberType(type, key) ==
    CASE type = "Node" -> Field(NodeFields, key)
      [] type = "Connection" -> Field(ConnectionFields, key)
      [] type = "map[string]Connection" -> "Connection"
      [] OTHER -> "interface{}"

\* the type the elements of an array are stored into
ElemType(type) ==
    CASE type = "[]Node" -> "Node"
      [] type = "[]int" -> "int"
      [] OTHER -> "interface{}"

Stored(fits, rest) == [fits |-> fits, rest |-> rest]

RECURSIVE decodeValue(_, _)
RECURSIVE decodeElements(_, _)
RECURSIVE decodeMembers(_, _)

\* toks0 starts with a value of a well-formed text
decodeValue(toks0, type) ==
    LET toks == skipWs(toks0)
        h == Head(toks)
        t == Tail(toks)
    IN CASE h = "null" -> Stored(TRUE, t)
         [] h \in {"true", "false"} -> Stored(TakesAny(type), t)
         [] h \in DOMAIN NumberLiteral ->
              Stored(TakesAny(type) \/ type = "float64"
                         \/ (type = "int" /\ h \in IntegerLiteral), t)
         [] h \in DOMAIN StringLiteral ->
              Stored(TakesAny(type) \/ type = "string", t)
         [] h = "[" ->
              LET ok == TakesAny(type) \/ type \in {"[]Node", "[]int"}
                  t2 == skipWs(t)
              IN IF Head(t2) = "]" THEN Stored(ok, Tail(t2))
                 ELSE LET r == decodeElements(t, ElemType(
                                   IF ok THEN type ELSE "interface{}"))
                      IN Stored(ok /\ r.fits, r.rest)
         [] h = "{" ->
              LET ok == \/ TakesAny(type)
                        \/ type \in {"Node", "Connection",
                                     "map[string]interface{}",
                                     "map[string]Connection"}
                  t2 == skipWs(t)
              IN IF Head(t2) = "}" THEN Stored(ok, Tail(t2))
                 ELSE LET r == decodeMembers(t,
                                   IF ok THEN type ELSE "interface{}")
                      IN Stored(ok /\ r.fits, r.rest)

decodeElements(toks, type) ==
    LET r == decodeValue(toks, type)
        t == skipWs(r.rest)
    IN IF Head(t) = ","
       THEN LET more == decodeElements(Tail(t), type)
            IN Stored(r.fits /\ more.fits, more.rest)
       ELSE Stored(r.fits, Tail(t))

decodeMembers(toks, type) ==
    LET t == skipWs(toks)
        key == StringLiteral[Head(t)]
        r == decodeValue(Tail(skipWs(Tail(t))), MemberType(type, key))
        t3 == skipWs(r.rest)
    IN IF Head(t3) = ","
       THEN LET more == decodeMembers(Tail(t3), type)
            IN Stored(r.fits /\ more.fits, more.rest)
       ELSE Stored(r.fits, Tail(t3))

UnmarshalInto(text, type) ==
    [err |-> Unmarshal(text).err \/ ~decodeValue(text, type).fits]

UnmarshalNodes(text) == UnmarshalInto(text, "[]Node")

UnmarshalConnections(text) == UnmarshalInto(text, "map[string]Connection")

(***************************************************************************)
(* json.Marshal of []n8n.Node and of map[string]n8n.Connection, as Read    *)
(* writes them: a struct's fields in the order of their declaration, a nil *)
(* slice or map as null, credentials left out when empty, a raw message as *)
(* its own text without whitespace.  A slice or map here is a record with  *)
(* its nil flag and its elements.                                          *)
(***************************************************************************)
IsEmpty(v) == v.kind = "nil" \/ (v.kind = "map" /\ DOMAIN v.m = {})

MarshalNode(node) ==
    <<"{", "\"parameters\"", ":">> \o Marshal(node.Parameters)
    \o <<",", "\"type\"", ":", Quote(node.Type),
         ",", "\"typeVersion\"", ":", FormatFloat(node.TypeVersion),
         ",", "\"position\"", ":">> \o Marshal(node.Position)
    \o <<",", "\"id\"", ":", Quote(node.ID),
         ",", "\"name\"", ":", Quote(node.Name)>>
    \o (IF IsEmpty(node.Credentials) THEN <<>>
        ELSE <<",", "\"credentials\"", ":">> \o Marshal(node.Credentials))
    \o <<"}">>

RECURSIVE MarshalNodeList(_)
MarshalNodeList(nodes) ==
    IF nodes = <<>> THEN <<>>
    ELSE MarshalNode(Head(nodes))
         \o (IF Len(nodes) > 1 THEN <<",">> ELSE <<>>)
         \o MarshalNodeList(Tail(nodes))

MarshalNodes(nodes) ==
    IF nodes.nil THEN <<"null">>
    ELSE <<"[">> \o MarshalNodeList(nodes.xs) \o <<"]">>

\* json.Compact of a raw message; a nil one is written null
MarshalRaw(raw) ==
    IF raw = <<>> THEN <<"null">>
    ELSE SelectSeq(raw, LAMBDA tok : tok # WS)

RECURSIVE MarshalConnectionMap(_, _)
MarshalConnectionMap(m, keys) ==
    IF keys = <<>> THEN <<>>
    ELSE <<Quote(Head(keys)), ":", "{", "\"main\"", ":">>
         \o MarshalRaw(m[Head(keys)].Main) \o <<"}">>
         \o (IF Len(keys) > 1 THEN <<",">> ELSE <<>>)
         \o MarshalConnectionMap(m, Tail(keys))

MarshalConnections(connections) ==
    IF connections.nil THEN <<"null">>
    ELSE <<"{">>
         \o MarshalConnectionMap(connections.m,
                SelectSeq(SortedKeys, LAMBDA k : k \in DOMAIN connections.m))
         \o <<"}">>

(***************************************************************************)
(* Create, Read, Update, Delete.  A handler runs up to a call of the       *)
(* client and waits for the answer; the operators below are what it        *)
(* computes between two calls.                                             *)
(***************************************************************************)
ValueBool(v) == v.value

\* n8n.Settings built from the plan's settings, or base when there are none
BuildSettings(settings, base) ==
    IF settings.null THEN base
    ELSE [f \in DOMAIN DefaultSettings |-> settings.value[f].value]

CreateSettings == [f \in DOMAIN DefaultSettings |-> DefaultSettings[f].value]

ZeroSettings ==
    [SaveExecutionProgress |-> FALSE, SaveManualExecutions |-> FALSE,
     SaveDataErrorExecution |-> <<>>, SaveDataSuccessExecution |-> <<>>,
     ExecutionTimeout |-> 0, ErrorWorkflow |-> <<>>, Timezone |-> <<>>,
     ExecutionOrder |-> <<>>]

NilNodes == [nil |-> TRUE, xs |-> <<>>]

NilConnections == [nil |-> TRUE, m |-> EmptyMap]

\* an n8n.Workflow as the client returns it
Workflow(id, name, versionId, updatedAt, active, settings) ==
    [ID |-> id, Name |-> name, VersionId |-> versionId, CreatedAt |-> <<"t0">>,
     UpdatedAt |-> updatedAt, Active |-> active, Nodes |-> NilNodes,
     Connections |-> NilConnections, Settings |-> settings]

\* var workflow, before a call of the client has answered: the zero value
\* of n8n.Workflow, every string empty
NoWorkflow ==
    [ID |-> <<>>, Name |-> <<>>, VersionId |-> <<>>, CreatedAt |-> <<>>,
     UpdatedAt |-> <<>>, Active |-> FALSE, Nodes |-> NilNodes,
     Connections |-> NilConnections, Settings |-> ZeroSettings]

SettingsOf(workflow) ==
    ObjectValue([f \in DOMAIN workflow.Settings |->
                    [null |-> FALSE, unknown |-> FALSE,
                     value |-> workflow.Settings[f]]])

\* "Map response to state" of Create and Update
MapToState(plan, workflow) ==
    RawValue([plan EXCEPT
        !.ID = StringValue(workflow.ID),
        !.VersionId = StringValue(workflow.VersionId),
        !.CreatedAt = StringValue(workflow.CreatedAt),
        !.UpdatedAt = StringValue(workflow.UpdatedAt),
        !.Active = BoolValue(workflow.Active),
        !.Settings = SettingsOf(workflow)])

\* the state Read writes from the workflow the client returned
ReadToState(state, workflow) ==
    RawValue([state EXCEPT
        !.ID = StringValue(workflow.ID),
        !.Name = StringValue(workflow.Name),
        !.Active = BoolValue(workflow.Active),
        !.Nodes = StringValue(MarshalNodes(workflow.Nodes)),
        !.Connections = StringValue(MarshalConnections(workflow.Connections)),
        !.VersionId = StringValue(workflow.VersionId),
        !.CreatedAt = StringValue(workflow.CreatedAt),
        !.UpdatedAt = StringValue(workflow.UpdatedAt),
        !.Settings = SettingsOf(workflow)])

\* Create returns before its first call: the plan cannot be read, or the
\* nodes or the connections cannot be decoded
CreateRejects(request) ==
    \/ GetHasError(request.Plan)
    \/ UnmarshalNodes(ValueString(request.Plan.model.Nodes)).err
    \/ UnmarshalConnections(ValueString(request.Plan.model.Connections)).err

\* Update returns before its first call
UpdateRejects(request) ==
    \/ GetHasError(request.Plan)
    \/ GetHasError(request.State)
    \/ UnmarshalNodes(ValueString(request.Plan.model.Nodes)).err
    \/ UnmarshalConnections(ValueString(request.Plan.model.Connections)).err

\* the call Create makes once CreateWorkflow has answered, if any
CreateActivation(plan) ==
    IF ValueBool(plan.Active) THEN "ActivateWorkflow" ELSE "none"

\* variant: the workflow is activated or deactivated as the plan says,
\* whatever the state says
UpdateActivation_FromPlanAlone(plan, state) ==
    IF ValueBool(plan.Active) THEN "ActivateWorkflow" ELSE "DeactivateWorkflow"

\* the call Update makes once UpdateWorkflow has answered, if any
UpdateActivation(plan, state) ==
    IF ValueBool(plan.Active) # ValueBool(state.Active)
    THEN IF ValueBool(plan.Active) THEN "ActivateWorkflow"
         ELSE "DeactivateWorkflow"
    ELSE "none"

(***************************************************************************)
(* The documents the operations are run on.  Trees first: scalars, small   *)
(* objects, arrays of scalars, arrays of objects (keyed or not), and those *)
(* nested one level further down; then their texts, the unnested ones in   *)
(* three layouts, and texts that are not JSON.                             *)
(***************************************************************************)
MaxLen == 2

MaxEntries == 2

SeqsUpTo(S, n) == UNION {[1..k -> S] : k \in 0..n}

MapOf(entries) ==
    [k \in {e[1] : e \in entries} |->
        (CHOOSE e \in entries : e[1] = k)[2]]

ObjectsOver(pool, n) ==
    {JObj(MapOf(es)) : es \in {x \in SUBSET pool :
        /\ Cardinality(x) <= n
        /\ \A e1, e2 \in x : e1[1] = e2[1] => e1 = e2}}

Scalars == {Nil, JBool(FALSE), JNum(1), JNum(2), JStr("a")}

EntryPool ==
    {<<"key", JStr("a")>>, <<"key", JStr("b")>>, <<"value", JNum(1)>>,
     <<"id", JNum(1)>>, <<"main", Nil>>, <<"executeOnce", JBool(FALSE)>>,
     <<"disabled", JStr("a")>>}

LeafObjects == ObjectsOver(EntryPool, MaxEntries)

ScalarArrays == {JArr(xs) : xs \in SeqsUpTo({Nil, JNum(1), JNum(2)}, MaxLen)}

Elements ==
    {JObj(MapOf({<<"key", JStr("a")>>})), JObj(MapOf({<<"key", JStr("b")>>})),
     JObj(MapOf({<<"key", JStr("a")>>, <<"value", JNum(1)>>})),
     JObj(MapOf({<<"id", JNum(1)>>}))}

ObjectArrays == {JArr(xs) : xs \in SeqsUpTo(Elements, MaxLen)}

Unnested == Scalars \cup LeafObjects \cup ScalarArrays \cup ObjectArrays

Nested ==
    {JObj(MapOf({<<"parameters", x>>})) : x \in ObjectArrays \cup LeafObjects}
    \cup {JObj(MapOf({<<"id", JNum(1)>>, <<"parameters", x>>})) :
             x \in ScalarArrays \cup {Nil, JObj(EmptyMap)}}
    \cup {JArr(<<x>>) : x \in LeafObjects}

\* arrays with an element that carries nothing next to one that does, and
\* arrays of elements that share their "key"
Sparse ==
    LET kept == JObj(MapOf({<<"id", JNum(1)>>}))
        keyed == JObj(MapOf({<<"key", JStr("a")>>}))
    IN UNION {{JArr(<<x, kept>>), JArr(<<kept, x>>)} :
                x \in {JObj(EmptyMap),
                       JObj(MapOf({<<"executeOnce", JBool(FALSE)>>}))}}
       \cup {JArr(<<Nil, keyed>>), JArr(<<keyed, Nil>>)}

SameKey ==
    LET one == JObj(MapOf({<<"key", JStr("a")>>, <<"value", JNum(1)>>}))
        two == JObj(MapOf({<<"key", JStr("a")>>, <<"value", JNum(2)>>}))
    IN {JArr(<<one, two>>), JArr(<<two, one>>), JArr(<<two>>)}

Documents == Unnested \cup Nested \cup Sparse \cup SameKey

Layouts == {<<FALSE, FALSE>>, <<TRUE, FALSE>>, <<FALSE, TRUE>>}

TextsOf(v) ==
    IF v \in Unnested THEN {encode(v, l[1], l[2]) : l \in Layouts}
    ELSE {encode(v, FALSE, FALSE)}

Formatted == UNION {TextsOf(v) : v \in Documents}

\* a number written another way, and a key written twice
OtherForms ==
    {<< <<"1.0">>, JNum(1) >>,
     << <<"[", "1.0", ",", "2", "]">>, JArr(<<JNum(1), JNum(2)>>) >>,
     << <<"{", "\"id\"", ":", "2", ",", "\"id\"", ":", "1", "}">>,
        JObj(MapOf({<<"id", JNum(1)>>})) >>}

WellFormed == Formatted \cup {p[1] : p \in OtherForms}

\* texts that are no JSON.  A text is the lexemes written one after the
\* other, so two number lexemes are kept apart by another lexeme ("1" next
\* to "2" would be the number 12).
Malformed ==
    {<<>>, <<"{", "invalid", "}">>, <<"{", "also-invalid", "}">>,
     <<"[", "1", ",", "]">>, <<"{", "\"a\"", ":", "1">>, <<"1", WS, "2">>,
     <<"{", "\"a\"", "1", "}">>, <<"[", "1", "}">>}

Texts == WellFormed \cup Malformed

DocOf ==
    [t \in WellFormed |->
        IF t \in Formatted THEN CHOOSE v \in Documents : t \in TextsOf(v)
        ELSE (CHOOSE p \in OtherForms : p[1] = t)[2]]

(***************************************************************************)
(* The state machine.  A run starts with a text at hand and no call made;  *)
(* a call takes it as its first argument, draws what else it needs, and    *)
(* records its arguments and result.                                       *)
(***************************************************************************)
NoRequest ==
    [StateValue |-> StringNull, ConfigValue |-> StringNull,
     PlanValue |-> StringNull]

\* the server has no workflow of the resource, or holds it, active or not
NotHeld == [Held |-> FALSE, Active |-> FALSE]

Servers == {NotHeld} \cup {[Held |-> TRUE, Active |-> active] : active \in BOOLEAN}

\* no operation has been called
Start ==
    /\ call = "none"
    /\ a \in Texts
    /\ b = <<>>
    /\ result = FALSE
    /\ out = <<>>
    /\ err = FALSE
    /\ req = NoRequest
    /\ resp = [PlanValue |-> StringNull]
    /\ third = <<>>
    /\ results = [bc |-> FALSE, ac |-> FALSE]
    /\ resourceReq = [State |-> RawNull, Plan |-> RawNull]
    /\ resourceResp = [Plan |-> RawNull, State |-> RawNull, StateSet |-> FALSE,
                       HasError |-> FALSE]
    /\ apiFails = {}
    /\ apiCalls = <<>>
    /\ answer = NoWorkflow

\* the operations on texts and plans never reach the server
Init == Start /\ server = NotHeld

\* the handlers that call the client find the server in any condition
InitApply == Start /\ server \in Servers

JsonSemanticEqual ==
    /\ call = "none"
    /\ \E tb \in Texts :
         /\ b' = tb
         /\ result' = jsonSemanticEqual(a, tb)
    /\ call' = "jsonSemanticEqual"
    /\ UNCHANGED <<a, out, err, req, resp, third, results, resourceVars>>

NormalizeJSONCall ==
    /\ call = "none"
    /\ out' = NormalizeJSON(a).out
    /\ err' = NormalizeJSON(a).err
    /\ call' = "NormalizeJSON"
    /\ UNCHANGED <<a, b, result, req, resp, third, results, resourceVars>>

Next == JsonSemanticEqual \/ NormalizeJSONCall

Spec == Init /\ [][Next]_vars

\* jsonSemanticEqual alone, for what is said of its result on two texts
NextCompare == JsonSemanticEqual

SpecCompare == Init /\ [][NextCompare]_vars

\* NormalizeJSON alone, for what is said of its output
NextNormalize == NormalizeJSONCall

SpecNormalize == Init /\ [][NextNormalize]_vars

(***************************************************************************)
(* The plan modifier at work.  Terraform hands it the attribute's value in *)
(* the prior state, in the configuration and in the proposed plan.  Where  *)
(* the configuration sets the attribute the proposed plan holds that very  *)
(* value; where it does not (a computed attribute) the plan is null,       *)
(* unknown or carried over from the state.  The text at hand is the state  *)
(* value, or the configured one where there is no state.                   *)
(***************************************************************************)
Proposals(text) ==
    {<<StringValue(text), StringValue(text)>>,
     <<StringUnknown, StringUnknown>>,
     <<StringNull, StringNull>>,
     <<StringNull, StringUnknown>>,
     <<StringNull, StringValue(text)>>}

Requests(text) ==
    {[StateValue |-> StringValue(text), ConfigValue |-> cp[1],
      PlanValue |-> cp[2]] :
        cp \in Proposals(text)
                \cup {<<StringValue(c), StringValue(c)>> : c \in Texts}}
    \cup {[StateValue |-> s, ConfigValue |-> cp[1], PlanValue |-> cp[2]] :
             s \in {StringNull, StringUnknown}, cp \in Proposals(text)}

PlanModifyStringCall ==
    /\ call = "none"
    /\ \E request \in Requests(a) :
         /\ req' = request
         /\ resp' = [PlanValue |-> PlanModifyString(request)]
    /\ call' = "PlanModifyString"
    /\ UNCHANGED <<a, b, result, out, err, third, results, resourceVars>>

NextPlan == PlanModifyStringCall

SpecPlan == Init /\ [][NextPlan]_vars

(***************************************************************************)
(* jsonSemanticEqual called on each two of three texts.  The texts are     *)
(* drawn from a sample of those above that holds, for every way two        *)
(* different documents compare equal, at least three documents that do.    *)
(***************************************************************************)
SampleDocuments ==
    LET id == <<"id", JNum(1)>>
        keyA == JObj(MapOf({<<"key", JStr("a")>>}))
        keyB == JObj(MapOf({<<"key", JStr("b")>>}))
        idOne == JObj(MapOf({id}))
    IN {JArr(xs) : xs \in SeqsUpTo({Nil, JNum(1)}, MaxLen)}
       \cup {Nil, JNum(1), JObj(EmptyMap), idOne, keyA,
             JObj(MapOf({<<"main", Nil>>})),
             JObj(MapOf({<<"executeOnce", JBool(FALSE)>>})),
             JObj(MapOf({id, <<"main", Nil>>})),
             JObj(MapOf({id, <<"executeOnce", JBool(FALSE)>>})),
             JObj(MapOf({<<"parameters", JObj(EmptyMap)>>})),
             JObj(MapOf({id, <<"parameters", Nil>>})),
             JObj(MapOf({id, <<"parameters", JObj(EmptyMap)>>})),
             JArr(<<idOne>>), JArr(<<keyA, idOne>>), JArr(<<idOne, keyA>>),
             JArr(<<keyA>>),
             JArr(<<keyA, keyB>>), JArr(<<keyB, keyA>>)}
       \cup Sparse \cup SameKey

Samples ==
    {encode(v, FALSE, FALSE) : v \in SampleDocuments}
    \cup UNION {TextsOf(v) : v \in SampleDocuments \cap LeafObjects}
    \cup {p[1] : p \in OtherForms}

JsonSemanticEqualOfThree ==
    /\ call = "none"
    /\ a \in Samples
    /\ \E tb \in Samples, tc \in Samples :
         /\ b' = tb
         /\ third' = tc
         /\ result' = jsonSemanticEqual(a, tb)
         /\ results' = [bc |-> jsonSemanticEqual(tb, tc),
                        ac |-> jsonSemanticEqual(a, tc)]
    /\ call' = "jsonSemanticEqual of three"
    /\ UNCHANGED <<a, out, err, req, resp, resourceVars>>

NextRelation == JsonSemanticEqualOfThree

SpecRelation == Init /\ [][NextRelation]_vars

(***************************************************************************)
(* ModifyPlan at work.  The text at hand is the nodes JSON of the prior    *)
(* state.  The planned nodes are any sample text, a malformed text or      *)
(* unknown; name, active, connections and settings are each as in the      *)
(* state or different; version_id and updated_at are planned unknown, or   *)
(* as in the state.  State or plan may be absent (create, destroy).        *)
(***************************************************************************)
Connections ==
    JObj(MapOf({<<"a", JObj(MapOf({<<"main", JArr(<<JNum(1)>>)>>}))>>}))

OtherConnections ==
    JObj(MapOf({<<"b", JObj(MapOf({<<"main", JArr(<<JNum(1)>>)>>}))>>}))

SettingsValues ==
    {DefaultSettings,
     [DefaultSettings EXCEPT !.SaveExecutionProgress = BoolValue(FALSE)],
     [DefaultSettings EXCEPT !.SaveManualExecutions = BoolValue(FALSE)],
     [DefaultSettings EXCEPT !.SaveDataErrorExecution = StringValue(<<"none">>)],
     [DefaultSettings EXCEPT !.SaveDataSuccessExecution = StringValue(<<"none">>)],
     [DefaultSettings EXCEPT !.ExecutionTimeout = Int64Value(60)],
     [DefaultSettings EXCEPT !.ErrorWorkflow = StringValue(<<"7">>)],
     [DefaultSettings EXCEPT !.Timezone = StringValue(<<"UTC">>)],
     [DefaultSettings EXCEPT !.ExecutionOrder = StringValue(<<"v0">>)]}

PriorState(text, settings) ==
    [ID |-> StringValue(<<"1">>), Name |-> StringValue(<<"wf">>),
     Active |-> BoolValue(FALSE),
     Nodes |-> StringValue(text),
     Connections |-> StringValue(encode(Connections, FALSE, FALSE)),
     Settings |-> settings,
     VersionId |-> StringValue(<<"v1">>),
     CreatedAt |-> StringValue(<<"t0">>),
     UpdatedAt |-> StringValue(<<"t1">>)]

PlannedNodes == {StringUnknown} \cup {StringValue(t) : t \in Samples \cup Malformed}

PlannedConnections ==
    {StringUnknown,
     StringValue(encode(Connections, FALSE, FALSE)),
     StringValue(encode(Connections, TRUE, TRUE)),
     StringValue(encode(OtherConnections, FALSE, FALSE))}

PlannedSettings ==
    {ObjectNull, ObjectUnknown} \cup {ObjectValue(f) : f \in SettingsValues}

\* plans that differ from the prior state in the JSON texts and the computed
\* values only
PlansOfNodes(prior) ==
    {[prior EXCEPT !.Nodes = n, !.Connections = conn,
                   !.VersionId = v[1], !.UpdatedAt = v[2]] :
        n \in PlannedNodes,
        conn \in {prior.Connections,
                  StringValue(encode(Connections, TRUE, TRUE))},
        v \in {<<StringUnknown, StringUnknown>>,
               <<prior.VersionId, prior.UpdatedAt>>}}

\* plans that differ from it in any of the other attributes as well
PlansOfAll(prior) ==
    {[prior EXCEPT !.Name = StringValue(name), !.Active = BoolValue(active),
                   !.Nodes = n, !.Connections = conn, !.Settings = settings,
                   !.VersionId = StringUnknown, !.UpdatedAt = StringUnknown] :
        name \in {<<"wf">>, <<"renamed">>}, active \in BOOLEAN,
        n \in {prior.Nodes, StringUnknown},
        conn \in PlannedConnections, settings \in PlannedSettings}

\* what the server may hold and GetWorkflow return
ZeroNode ==
    [Parameters |-> Nil, Type |-> "", TypeVersion |-> 0, Position |-> Nil,
     ID |-> "", Name |-> "", Credentials |-> Nil]

SampleNode ==
    [Parameters |-> JObj(("key" :> JStr("a")) @@ ("b" :> Nil)),
     Type |-> "type", TypeVersion |-> 1,
     Position |-> JArr(<<JNum(1), JNum(2)>>), ID |-> "id", Name |-> "name",
     Credentials |-> JObj(("a" :> JObj(("id" :> JStr("b")))))]

ServerNodes ==
    {NilNodes, [nil |-> FALSE, xs |-> <<>>], [nil |-> FALSE, xs |-> <<ZeroNode>>],
     [nil |-> FALSE, xs |-> <<SampleNode, ZeroNode>>]}

ServerConnections ==
    {NilConnections, [nil |-> FALSE, m |-> EmptyMap],
     [nil |-> FALSE, m |-> ("a" :> [Main |-> <<"[", "1", "]">>])],
     [nil |-> FALSE,
      m |-> ("b" :> [Main |-> <<>>])
            @@ ("a" :> [Main |-> <<"[", WS, "1.0", ",", WS, "2", "]">>])]}

\* the workflow of the resource as the server holds it
HeldWorkflow(nodes, connections, active) ==
    [Workflow(<<"1">>, <<"wf">>, <<"v1">>, <<"t1">>, active, CreateSettings)
        EXCEPT !.Nodes = nodes, !.Connections = connections]

\* the states Read writes
ReadStates(active) ==
    {ReadToState(NullModel, HeldWorkflow(nodes, connections, active)).model :
        nodes \in ServerNodes, connections \in ServerConnections}

\* the state at hand is one that holds the text as its nodes or, with the
\* text null, one that Read wrote
ModifyPlanRequests(text) ==
    LET priors == {PriorState(text, ObjectNull),
                   PriorState(text, ObjectValue(DefaultSettings))}
                  \cup (IF text = <<"null">> THEN ReadStates(FALSE) ELSE {})
    IN UNION {{[State |-> RawValue(prior), Plan |-> RawValue(plan)] :
                  plan \in PlansOfNodes(prior) \cup PlansOfAll(prior)}
              \cup {[State |-> RawValue(prior), Plan |-> RawNull],
                    [State |-> RawNull, Plan |-> RawValue(prior)]} :
              prior \in priors}

ModifyPlanCall ==
    /\ call = "none"
    /\ a \in Samples
    /\ \E request \in ModifyPlanRequests(a) :
         /\ resourceReq' = request
         /\ resourceResp' = [resourceResp EXCEPT
                                !.Plan = ModifyPlan(request).Plan,
                                !.HasError = ModifyPlan(request).HasError]
    /\ call' = "ModifyPlan"
    /\ UNCHANGED <<a, textVars, apiFails, apiCalls, server, answer>>

NextModify == ModifyPlanCall

SpecModify == Init /\ [][NextModify]_vars

(***************************************************************************)
(* The handlers of the resource at work against the server.  The server    *)
(* either holds the workflow of the resource, active or not, or does not;  *)
(* the text at hand is the planned nodes JSON, any text at all; the        *)
(* planned connections are well-formed and of the right shape, of the      *)
(* wrong shape, or malformed.  A handler runs to its first call of the     *)
(* client and stays there until the call answers; every call may fail.     *)
(* apiCalls are the calls answered so far, apiFails those that failed.     *)
(***************************************************************************)
ConnectionsTexts ==
    {encode(Connections, FALSE, FALSE), <<"{", "}">>, <<"null">>,
     <<"{", "\"a\"", ":", "1", "}">>, <<"[", "]">>,
     <<"{", "invalid", "}">>,
     <<"{", "\"a\"", ":", "1", ",", "\"a\"", ":", "{", "}", "}">>}

\* nodes texts that are well-formed lists of objects: a field of the wrong
\* type, a field named in another case, a key written twice, positions
\* that are no integers
NodesTexts ==
    {<<"[", "{", "\"ID\"", ":", "1", "}", "]">>,
     <<"[", "{", "\"ID\"", ":", "\"a\"", "}", "]">>,
     <<"[", "{", "\"id\"", ":", "2", ",", "\"id\"", ":", "\"a\"", "}", "]">>,
     <<"[", "{", "\"parameters\"", ":", "\"a\"", ",", "\"parameters\"", ":",
       "{", "\"id\"", ":", "1", "}", "}", "]">>,
     <<"[", "{", "\"position\"", ":", "[", "1.0", "]", "}", "]">>,
     <<"[", "{", "\"position\"", ":", "[", "1", ",", "null", "]", "}", "]">>,
     <<"[", "{", "\"typeVersion\"", ":", "1.0", ",", WS, "\"name\"", ":",
       "\"a\"", ",", "\"credentials\"", ":", "{", "\"a\"", ":", "true", "}",
       "}", "]">>}

AppliedPlans(text) ==
    {[PriorState(nodes, settings) EXCEPT
         !.ID = StringUnknown, !.Active = BoolValue(active),
         !.Connections = StringValue(conn),
         !.VersionId = StringUnknown, !.UpdatedAt = StringUnknown] :
        nodes \in {text} \cup (IF text = <<"null">> THEN NodesTexts ELSE {}),
        active \in BOOLEAN, conn \in ConnectionsTexts,
        settings \in {ObjectNull, ObjectUnknown, ObjectValue(DefaultSettings)}}

\* the handler returns with an error
Fails == [resourceResp EXCEPT !.HasError = TRUE]

CreateCall ==
    /\ call = "none"
    /\ ~server.Held
    /\ \E plan \in AppliedPlans(a) :
         LET request == [State |-> RawNull,
                         Plan |-> RawValue([plan EXCEPT !.CreatedAt = StringUnknown])]
         IN /\ resourceReq' = request
            /\ IF CreateRejects(request)
               THEN resourceResp' = Fails /\ call' = "Create"
               ELSE resourceResp' = resourceResp
                    /\ call' = "Create: CreateWorkflow"
    /\ UNCHANGED <<a, textVars, apiFails, apiCalls, server, answer>>

\* r.client.CreateWorkflow answers
CreateWorkflowAnswers ==
    /\ call = "Create: CreateWorkflow"
    /\ apiCalls' = Append(apiCalls, "CreateWorkflow")
    /\ LET plan == resourceReq.Plan.model
           workflow == Workflow(<<"1">>, ValueString(plan.Name), <<"v1">>,
                                <<"t0">>, FALSE,
                                BuildSettings(plan.Settings, CreateSettings))
       IN \/ /\ apiFails' = apiFails \cup {"CreateWorkflow"}
             /\ resourceResp' = Fails
             /\ call' = "Create"
             /\ UNCHANGED <<server, answer>>
          \/ /\ server' = [Held |-> TRUE, Active |-> FALSE]
             /\ answer' = workflow
             /\ IF CreateActivation(plan) = "none"
                THEN /\ resourceResp' = [resourceResp EXCEPT
                            !.State = MapToState(plan, workflow),
                            !.StateSet = TRUE]
                     /\ call' = "Create"
                ELSE /\ resourceResp' = resourceResp
                     /\ call' = "Create: ActivateWorkflow"
             /\ UNCHANGED apiFails
    /\ UNCHANGED <<a, textVars, resourceReq>>

\* Update: the state at hand is one Read wrote; when the server holds the
\* workflow, it says of the activation what the server says
UpdateCall ==
    /\ call = "none"
    /\ \E plan \in AppliedPlans(a),
          active \in (IF server.Held THEN {server.Active} ELSE BOOLEAN) :
         LET prior == ReadToState(NullModel,
                          HeldWorkflow(NilNodes, NilConnections, active)).model
             request == [State |-> RawValue(prior),
                         Plan |-> RawValue([plan EXCEPT !.ID = prior.ID])]
         IN /\ resourceReq' = request
            /\ IF UpdateRejects(request)
               THEN resourceResp' = Fails /\ call' = "Update"
               ELSE resourceResp' = resourceResp
                    /\ call' = "Update: UpdateWorkflow"
    /\ UNCHANGED <<a, textVars, apiFails, apiCalls, server, answer>>

\* r.client.UpdateWorkflow answers: the server has no such workflow, or
\* fails otherwise, or returns the workflow updated
UpdateWorkflowAnswers ==
    /\ call = "Update: UpdateWorkflow"
    /\ apiCalls' = Append(apiCalls, "UpdateWorkflow")
    /\ LET plan == resourceReq.Plan.model
           state == resourceReq.State.model
           workflow == Workflow(ValueString(state.ID), ValueString(plan.Name),
                                <<"v2">>, <<"t2">>, server.Active,
                                BuildSettings(plan.Settings, ZeroSettings))
       IN \/ /\ apiFails' = apiFails \cup {"UpdateWorkflow"}
             /\ resourceResp' = Fails
             /\ call' = "Update"
             /\ UNCHANGED answer
          \/ /\ server.Held
             /\ answer' = workflow
             /\ IF UpdateActivation(plan, state) = "none"
                THEN /\ resourceResp' = [resourceResp EXCEPT
                            !.State = MapToState(plan, workflow),
                            !.StateSet = TRUE]
                     /\ call' = "Update"
                ELSE /\ resourceResp' = resourceResp
                     /\ call' = IF UpdateActivation(plan, state) = "ActivateWorkflow"
                                THEN "Update: ActivateWorkflow"
                                ELSE "Update: DeactivateWorkflow"
             /\ UNCHANGED apiFails
    /\ UNCHANGED <<a, textVars, resourceReq, server>>

\* r.client.ActivateWorkflow answers, to Create or to Update
ActivateWorkflowAnswers ==
    /\ call \in {"Create: ActivateWorkflow", "Update: ActivateWorkflow"}
    /\ apiCalls' = Append(apiCalls, "ActivateWorkflow")
    /\ call' = IF call = "Create: ActivateWorkflow" THEN "Create" ELSE "Update"
    /\ \/ /\ apiFails' = apiFails \cup {"ActivateWorkflow"}
          /\ resourceResp' = Fails
          /\ UNCHANGED <<server, answer>>
       \/ /\ server.Held
          /\ server' = [server EXCEPT !.Active = TRUE]
          /\ answer' = [answer EXCEPT !.Active = TRUE]
          /\ resourceResp' = [resourceResp EXCEPT
                 !.State = MapToState(resourceReq.Plan.model, answer'),
                 !.StateSet = TRUE]
          /\ UNCHANGED apiFails
    /\ UNCHANGED <<a, textVars, resourceReq>>

\* r.client.DeactivateWorkflow answers
DeactivateWorkflowAnswers ==
    /\ call = "Update: DeactivateWorkflow"
    /\ apiCalls' = Append(apiCalls, "DeactivateWorkflow")
    /\ call' = "Update"
    /\ \/ /\ apiFails' = apiFails \cup {"DeactivateWorkflow"}
          /\ resourceResp' = Fails
          /\ UNCHANGED <<server, answer>>
       \/ /\ server.Held
          /\ server' = [server EXCEPT !.Active = FALSE]
          /\ answer' = [answer EXCEPT !.Active = FALSE]
          /\ resourceResp' = [resourceResp EXCEPT
                 !.State = MapToState(resourceReq.Plan.model, answer'),
                 !.StateSet = TRUE]
          /\ UNCHANGED apiFails
    /\ UNCHANGED <<a, textVars, resourceReq>>

\* Read: the state at hand is one an earlier Read, Create or Update wrote
ReadCall ==
    /\ call = "none"
    /\ a \in Samples
    /\ \E active \in BOOLEAN :
         resourceReq' = [State |-> RawValue([PriorState(a,
                                       ObjectValue(DefaultSettings))
                                    EXCEPT !.Active = BoolValue(active)]),
                         Plan |-> RawNull]
    /\ call' = "Read: GetWorkflow"
    /\ UNCHANGED <<a, textVars, resourceResp, apiFails, apiCalls, server, answer>>

\* r.client.GetWorkflow answers with the workflow as the server holds it
GetWorkflowAnswers ==
    /\ call = "Read: GetWorkflow"
    /\ apiCalls' = Append(apiCalls, "GetWorkflow")
    /\ call' = "Read"
    /\ \/ /\ apiFails' = apiFails \cup {"GetWorkflow"}
          /\ resourceResp' = Fails
          /\ UNCHANGED answer
       \/ /\ server.Held
          /\ \E nodes \in ServerNodes, connections \in ServerConnections :
               /\ answer' = HeldWorkflow(nodes, connections, server.Active)
               /\ resourceResp' = [resourceResp EXCEPT
                      !.State = ReadToState(resourceReq.State.model, answer'),
                      !.StateSet = TRUE]
          /\ UNCHANGED apiFails
    /\ UNCHANGED <<a, textVars, resourceReq, server>>

DeleteCall ==
    /\ call = "none"
    /\ a \in Samples
    /\ resourceReq' = [State |-> RawValue(PriorState(a,
                                     ObjectValue(DefaultSettings))),
                       Plan |-> RawNull]
    /\ call' = "Delete: DeleteWorkflow"
    /\ UNCHANGED <<a, textVars, resourceResp, apiFails, apiCalls, server, answer>>

\* r.client.DeleteWorkflow answers; the workflow returned is dropped
DeleteWorkflowAnswers ==
    /\ call = "Delete: DeleteWorkflow"
    /\ apiCalls' = Append(apiCalls, "DeleteWorkflow")
    /\ call' = "Delete"
    /\ \/ /\ apiFails' = apiFails \cup {"DeleteWorkflow"}
          /\ resourceResp' = Fails
          /\ UNCHANGED server
       \/ /\ server.Held
          /\ server' = NotHeld
          /\ UNCHANGED <<resourceResp, apiFails>>
    /\ UNCHANGED <<a, textVars, resourceReq, answer>>

\* ImportState: the id given is written to the id attribute of a state
\* that has nothing else
ImportStateCall ==
    /\ call = "none"
    /\ a \in Samples
    /\ \E id \in {<<"1">>, <<"2">>} :
         resourceResp' = [resourceResp EXCEPT
             !.State = RawValue([NullModel EXCEPT !.ID = StringValue(id)]),
             !.StateSet = TRUE]
    /\ call' = "ImportState"
    /\ UNCHANGED <<a, textVars, resourceReq, apiFails, apiCalls, server, answer>>

NextApply ==
    \/ CreateCall
    \/ CreateWorkflowAnswers
    \/ UpdateCall
    \/ UpdateWorkflowAnswers
    \/ ActivateWorkflowAnswers
    \/ DeactivateWorkflowAnswers
    \/ ReadCall
    \/ GetWorkflowAnswers
    \/ DeleteCall
    \/ DeleteWorkflowAnswers
    \/ ImportStateCall

SpecApply == InitApply /\ [][NextApply]_vars

(***************************************************************************)
(* Relations between documents that the properties below speak of.         *)
(***************************************************************************)
Compared == call = "jsonSemanticEqual"

BothWellFormed == a \in WellFormed /\ b \in WellFormed

IsScalar(v) == v.kind \in {"bool", "float64", "string"}

IsKeyedArray(v) ==
    /\ v.kind = "slice"
    /\ \A i \in 1..Len(v.xs) :
         /\ v.xs[i].kind = "map"
         /\ "key" \in DOMAIN v.xs[i].m
         /\ IsScalar(v.xs[i].m["key"])

\* v is u with the elements of keyed arrays, at any depth, permuted
RECURSIVE KeyedPermutation(_, _)
KeyedPermutation(u, v) ==
    /\ u.kind = v.kind
    /\ CASE u.kind = "map" ->
              /\ DOMAIN u.m = DOMAIN v.m
              /\ \A k \in DOMAIN u.m : KeyedPermutation(u.m[k], v.m[k])
         [] u.kind = "slice" ->
              /\ Len(u.xs) = Len(v.xs)
              /\ IF IsKeyedArray(u)
                 THEN \E p \in Permutations(1..Len(u.xs)) :
                          \A i \in 1..Len(u.xs) : v.xs[i] = u.xs[p[i]]
                 ELSE \A i \in 1..Len(u.xs) :
                          KeyedPermutation(u.xs[i], v.xs[i])
         [] OTHER -> u = v

ListedOptionalFields ==
    {"executeOnce", "alwaysOutputData", "retryOnFail", "onError",
     "continueOnFail", "disabled"}

\* the value carries nothing comparable: null, or a container of only
\* nulls, optional fields and such containers
RECURSIVE CarriesNothing(_)
CarriesNothing(v) ==
    CASE v.kind = "nil" -> TRUE
      [] v.kind = "map" ->
           \A k \in DOMAIN v.m :
               k \in ListedOptionalFields \/ CarriesNothing(v.m[k])
      [] v.kind = "slice" -> \A i \in 1..Len(v.xs) : CarriesNothing(v.xs[i])
      [] OTHER -> FALSE

\* the entries a property allows to be removed: those with a null value,
\* those named in the optional-field list, those whose value carries nothing
Removable(which, k, x) ==
    \/ which = "null" /\ x.kind = "nil"
    \/ which = "optional" /\ k \in ListedOptionalFields
    \/ which = "emptied" /\ CarriesNothing(x)

\* v is u with object entries removed, at any depth, each of them Removable
RECURSIVE WithoutEntries(_, _, _)
WithoutEntries(u, v, which) ==
    /\ u.kind = v.kind
    /\ CASE u.kind = "map" ->
              /\ DOMAIN v.m \subseteq DOMAIN u.m
              /\ \A k \in DOMAIN u.m \ DOMAIN v.m : Removable(which, k, u.m[k])
              /\ \A k \in DOMAIN v.m : WithoutEntries(u.m[k], v.m[k], which)
         [] u.kind = "slice" ->
              /\ Len(u.xs) = Len(v.xs)
              /\ \A i \in 1..Len(u.xs) : WithoutEntries(u.xs[i], v.xs[i], which)
         [] OTHER -> u = v

\* no nil as a map value or slice element anywhere in v
RECURSIVE NoNilInside(_)
NoNilInside(v) ==
    CASE v.kind = "map" ->
           \A k \in DOMAIN v.m : v.m[k].kind # "nil" /\ NoNilInside(v.m[k])
      [] v.kind = "slice" ->
           \A i \in 1..Len(v.xs) :
               v.xs[i].kind # "nil" /\ NoNilInside(v.xs[i])
      [] OTHER -> TRUE

A == DocOf[a]

B == DocOf[b]

SameDocument(ta, tb) ==
    ta \in Formatted /\ tb \in Formatted /\ DocOf[ta] = DocOf[tb]

Count(e, xs) == Cardinality({i \in 1..Len(xs) : xs[i] = e})

SameMultiset(xs, ys) ==
    \A e \in {xs[i] : i \in 1..Len(xs)} \cup {ys[i] : i \in 1..Len(ys)} :
        Count(e, xs) = Count(e, ys)

NormalizedElements(v) == normalizeItems(v.xs)

(***************************************************************************)
(* C1.  Keyed-array order invariance: when b is a with the elements of an  *)
(* array of objects that all carry a scalar "key" entry permuted, at the   *)
(* root or nested, jsonSemanticEqual(a, b) is true.                        *)
(***************************************************************************)
C1_KeyedArrayOrderInvariance ==
    (Compared /\ BothWellFormed /\ KeyedPermutation(A, B)) => result = TRUE

(***************************************************************************)
(* C2.  Removing null-valued entries from objects, at any depth, does not  *)
(* change the result: the document with the entries equals the document    *)
(* without them, and both compare alike against every other text.          *)
(***************************************************************************)
C2_NullEntryRemoval ==
    (Compared /\ BothWellFormed /\ A # B /\ WithoutEntries(A, B, "null")) =>
        /\ result = TRUE
        /\ \A c \in Texts : jsonSemanticEqual(a, c) = jsonSemanticEqual(b, c)

C2_Witness ==
    /\ Compared /\ BothWellFormed /\ result = TRUE
    /\ A # B /\ WithoutEntries(A, B, "null")
    /\ A.kind = "slice" /\ Len(A.xs) = 1 /\ DOMAIN B.xs[1].m # {}

(***************************************************************************)
(* C3.  Removing entries whose key is one of the optional fields           *)
(* (executeOnce, alwaysOutputData, retryOnFail, onError, continueOnFail,   *)
(* disabled), whatever their value and at any depth, does not change the   *)
(* result of jsonSemanticEqual.                                            *)
(***************************************************************************)
C3_OptionalFieldRemoval ==
    (Compared /\ BothWellFormed /\ A # B /\ WithoutEntries(A, B, "optional")) =>
        /\ result = TRUE
        /\ \A c \in Texts : jsonSemanticEqual(a, c) = jsonSemanticEqual(b, c)

C3_Witness ==
    /\ Compared /\ BothWellFormed /\ result = TRUE
    /\ A # B /\ WithoutEntries(A, B, "optional")
    /\ A.kind = "slice" /\ Len(A.xs) = 1
    /\ "disabled" \in DOMAIN A.xs[1].m /\ DOMAIN B.xs[1].m # {}

(***************************************************************************)
(* C4.  Absent is never kept inside a parent: the normalized tree holds no *)
(* nil as a map value or slice element, and a document equals the same     *)
(* document without the entries whose value normalizes to nothing (an      *)
(* empty container, or one holding only nulls and optional fields).        *)
(***************************************************************************)
C4_AbsentNeverKept ==
    (Compared /\ BothWellFormed) =>
        /\ NoNilInside(normalizeForComparison(Unmarshal(a).val))
        /\ WithoutEntries(A, B, "emptied") => result = TRUE

(***************************************************************************)
(* C5.  Normalization is idempotent: normalizing a normalized tree gives   *)
(* the same tree.                                                          *)
(***************************************************************************)
C5_NormalizeIdempotent ==
    (Compared /\ a \in WellFormed) =>
        LET once == normalizeForComparison(Unmarshal(a).val)
        IN normalizeForComparison(once) = once

(***************************************************************************)
(* C6.  Fail-closed comparison: the result is false whenever either text   *)
(* is not well-formed JSON, also when both are and when they are the same  *)
(* text.                                                                   *)
(***************************************************************************)
C6_FailClosed ==
    (Compared /\ (a \in Malformed \/ b \in Malformed)) => result = FALSE

C6_Witness == Compared /\ a \in Malformed /\ b = a /\ result = FALSE

(***************************************************************************)
(* C7.  Two keyed arrays compare equal only if they hold the same          *)
(* normalized elements the same number of times.                           *)
(***************************************************************************)
C7_KeyedArraysEqualOnlyAsMultisets ==
    (Compared /\ BothWellFormed /\ IsKeyedArray(A) /\ IsKeyedArray(B)
        /\ result = TRUE) =>
        SameMultiset(NormalizedElements(A), NormalizedElements(B))

C7_Witness ==
    /\ Compared /\ BothWellFormed /\ IsKeyedArray(A) /\ IsKeyedArray(B)
    /\ result = TRUE /\ a # b /\ Len(A.xs) = MaxLen /\ A.xs[1] # A.xs[MaxLen]

(***************************************************************************)
(* C8.  Non-keyed order sensitivity: two arrays of non-null scalars        *)
(* compare equal iff they have the same length and the same element at     *)
(* every position; so do any two arrays that are not both keyed, on their  *)
(* normalized elements.                                                    *)
(***************************************************************************)
C8_NonKeyedArraysPositional ==
    (Compared /\ BothWellFormed /\ A.kind = "slice" /\ B.kind = "slice") =>
        /\ ((\A i \in 1..Len(A.xs) : IsScalar(A.xs[i]))
              /\ (\A i \in 1..Len(B.xs) : IsScalar(B.xs[i])))
             => (result = TRUE <=> A.xs = B.xs)
        /\ ~(IsKeyedArray(A) /\ IsKeyedArray(B))
             => (result = TRUE <=> NormalizedElements(A) = NormalizedElements(B))

C8_Witness ==
    /\ Compared /\ BothWellFormed /\ result = FALSE
    /\ A = JArr(<<JNum(1), JNum(2)>>) /\ B = JArr(<<JNum(2), JNum(1)>>)

(***************************************************************************)
(* C9.  Symmetry: comparing b with a gives the result of comparing a with  *)
(* b, for all texts, well-formed or not.                                   *)
(***************************************************************************)
C9_Symmetric == Compared => result = jsonSemanticEqual(b, a)

C9_Witness ==
    /\ Compared /\ a \in WellFormed /\ b \in Malformed /\ result = FALSE
    /\ Unmarshal(a).val.kind = "nil"

(***************************************************************************)
(* C10.  Format invariance: two texts of the same document that differ     *)
(* only in whitespace and in the order of object keys compare equal.       *)
(***************************************************************************)
C10_FormatInvariant ==
    (Compared /\ BothWellFormed /\ SameDocument(a, b)) => result = TRUE

C10_Witness ==
    /\ Compared /\ BothWellFormed /\ SameDocument(a, b) /\ result = TRUE
    /\ WS \in {b[i] : i \in 1..Len(b)}
    /\ a = encode(A, FALSE, TRUE) /\ a # encode(A, FALSE, FALSE)

(***************************************************************************)
(* The plan modifier and NormalizeJSON.                                    *)
(***************************************************************************)
Modified == call = "PlanModifyString"

AllKnown(request) ==
    /\ ~IsNull(request.StateValue) /\ ~IsUnknown(request.StateValue)
    /\ ~IsNull(request.ConfigValue) /\ ~IsUnknown(request.ConfigValue)
    /\ ~IsNull(request.PlanValue) /\ ~IsUnknown(request.PlanValue)

\* C11: with state, config and plan all known, the plan the modifier leaves
\* is the state's text when jsonSemanticEqual(state, config) holds and the
\* proposed value when it does not; it is never anything but one of the two.
C11_PlanIsStateOrProposed ==
    Modified /\ AllKnown(req) =>
        /\ resp.PlanValue =
              IF jsonSemanticEqual(ValueString(req.StateValue),
                                   ValueString(req.ConfigValue))
              THEN StringValue(ValueString(req.StateValue))
              ELSE req.PlanValue
        /\ resp.PlanValue \in {req.PlanValue, req.StateValue}

C11_Witness ==
    /\ Modified /\ AllKnown(req)
    /\ req.StateValue # req.ConfigValue
    /\ resp.PlanValue = req.StateValue
    /\ resp.PlanValue # req.PlanValue

Normalized == call = "NormalizeJSON"

Succeeded(text) == [out |-> text, err |-> FALSE]

\* C12: for a well-formed text NormalizeJSON succeeds, and applied to its
\* own output it succeeds again and returns that output unchanged.
C12_NormalizeJSONIdempotent ==
    Normalized /\ a \in WellFormed =>
        ~err /\ NormalizeJSON(out) = Succeeded(out)

C12_Witness ==
    /\ Normalized /\ a \in WellFormed /\ ~err
    /\ out # a
    /\ NormalizeJSON(out) = Succeeded(out)

NoWhitespace(text) == \A i \in 1..Len(text) : text[i] # WS

Rank(key) == CHOOSE i \in 1..Len(SortedKeys) : SortedKeys[i] = key

IsKeyAt(toks) ==
    /\ Head(toks) \in DOMAIN StringLiteral
    /\ skipWs(Tail(toks)) # <<>>
    /\ Head(skipWs(Tail(toks))) = ":"

\* open holds, for every container not yet closed, the rank of the last key
\* read in it
RECURSIVE KeysAscendingFrom(_, _)
KeysAscendingFrom(toks, open) ==
    IF toks = <<>> THEN TRUE
    ELSE IF Head(toks) \in {"{", "["}
    THEN KeysAscendingFrom(Tail(toks), Append(open, 0))
    ELSE IF Head(toks) \in {"}", "]"}
    THEN KeysAscendingFrom(Tail(toks), SubSeq(open, 1, Len(open) - 1))
    ELSE IF IsKeyAt(toks)
    THEN LET r == Rank(StringLiteral[Head(toks)]) IN
         /\ r > open[Len(open)]
         /\ KeysAscendingFrom(Tail(toks), [open EXCEPT ![Len(open)] = r])
    ELSE KeysAscendingFrom(Tail(toks), open)

KeysAscending(text) == KeysAscendingFrom(text, <<>>)

\* C13: every text of the same document, whatever its whitespace and key
\* order, is given the same output, which has its object keys in ascending
\* order and no whitespace.
C13_CanonicalFormIgnoresLayout ==
    Normalized /\ a \in Formatted =>
        /\ \A t \in TextsOf(A) : NormalizeJSON(t) = Succeeded(out)
        /\ NoWhitespace(out)
        /\ KeysAscending(out)

C13_Witness ==
    /\ Normalized /\ a \in Formatted /\ ~err
    /\ A.kind = "map" /\ Cardinality(DOMAIN A.m) = 2
    /\ ~KeysAscending(a)
    /\ \E t \in TextsOf(A) : ~NoWhitespace(t) /\ NormalizeJSON(t).out = out
    /\ NoWhitespace(out) /\ KeysAscending(out)

\* C14: the output of NormalizeJSON parses to the very tree its input
\* parses to: nulls, optional fields, empty containers and the order of
\* array elements are all kept.
C14_NormalizeJSONKeepsTheTree ==
    Normalized /\ a \in WellFormed =>
        /\ ~err
        /\ Unmarshal(out).val = A
        /\ Unmarshal(out) = Unmarshal(a)

C14_Witness ==
    /\ Normalized /\ a \in WellFormed /\ ~err
    /\ A.kind = "map"
    /\ \E k \in DOMAIN A.m : A.m[k].kind = "nil"
    /\ \E k \in DOMAIN A.m : k \in ListedOptionalFields
    /\ Unmarshal(out).val = A

\* C15: a malformed input gives an error and the empty string; a
\* well-formed input gives no error and a text NormalizeJSON accepts.
C15_ErrorExactlyOnMalformed ==
    Normalized =>
        /\ a \in Malformed => err /\ out = <<>>
        /\ a \in WellFormed => ~err /\ ~NormalizeJSON(out).err

C15_Witness ==
    /\ Normalized /\ a \in Malformed /\ a # <<>>
    /\ err /\ out = <<>>

(***************************************************************************)
(* Objects and arrays under jsonSemanticEqual.                             *)
(***************************************************************************)
\* the keys of an object that survive normalization: value not null, key
\* not an optional field, value not normalized away
SurvivingKeys(v) ==
    {k \in DOMAIN v.m :
        k \notin ListedOptionalFields /\ ~CarriesNothing(v.m[k])}

ValuesEqual(x, y) == jsonSemanticEqual(Marshal(x), Marshal(y))

\* C16: two objects compare equal exactly when they have the same
\* surviving keys and under each of them values that compare equal.
C16_ObjectsEqualIffSurvivingEntriesEqual ==
    Compared /\ BothWellFormed /\ A.kind = "map" /\ B.kind = "map" =>
        (result <=>
            /\ SurvivingKeys(A) = SurvivingKeys(B)
            /\ \A k \in SurvivingKeys(A) : ValuesEqual(A.m[k], B.m[k]))

\* what the properties list as normalizing to nothing: null, an empty
\* container, an object of only null values and optional fields
ListedAbsent(v) ==
    \/ v.kind = "nil"
    \/ v.kind = "slice" /\ Len(v.xs) = 0
    \/ v.kind = "map"
         /\ \A k \in DOMAIN v.m :
                v.m[k].kind = "nil" \/ k \in ListedOptionalFields

\* such a value, or an array of only such values
RootAbsent(v) ==
    \/ ListedAbsent(v)
    \/ v.kind = "slice" /\ \A i \in 1..Len(v.xs) : ListedAbsent(v.xs[i])

\* C17: any two documents that normalize to nothing at the root compare
\* equal; such a document and one with surviving content compare unequal.
C17_RootAbsentDocumentsEqual ==
    Compared /\ BothWellFormed =>
        /\ RootAbsent(A) /\ RootAbsent(B) => result = TRUE
        /\ RootAbsent(A) /\ ~CarriesNothing(B) => result = FALSE
        /\ ~CarriesNothing(A) /\ RootAbsent(B) => result = FALSE

C17_Witness ==
    /\ Compared /\ BothWellFormed /\ result = TRUE
    /\ A.kind = "map" /\ DOMAIN A.m # {}
    /\ B.kind = "slice" /\ Len(B.xs) > 0
    /\ RootAbsent(A) /\ RootAbsent(B)

KeepsElement(e) == ~ListedAbsent(e)

KeptElements(v) == SelectSeq(v.xs, KeepsElement)

\* C18: an array compares equal to itself without its elements that are
\* null, empty containers or objects of only nulls and optional fields, and
\* to null when no element is left; its normalized form holds no such
\* element.
C18_AbsentElementsDropped ==
    Compared /\ BothWellFormed /\ A.kind = "slice" =>
        /\ B.kind = "slice" /\ B.xs = KeptElements(A) => result = TRUE
        /\ B.kind = "nil" /\ KeptElements(A) = <<>> => result = TRUE
        /\ normalizeForComparison(A)
              = normalizeForComparison(JArr(KeptElements(A)))
        /\ Len(NormalizedElements(A)) <= Len(KeptElements(A))

C18_Witness ==
    /\ Compared /\ BothWellFormed /\ result = TRUE
    /\ A.kind = "slice" /\ Len(A.xs) = 2
    /\ A.xs[1].kind = "map" /\ DOMAIN A.xs[1].m # {}
    /\ B.kind = "slice" /\ B.xs = KeptElements(A) /\ Len(B.xs) = 1

KeyedOnceNormalized(v) == IsKeyedArray(JArr(NormalizedElements(v)))

\* C19: two arrays that are not both keyed and hold the same normalized
\* elements in a different order compare unequal.
C19_ReorderingExcusedOnlyIfBothKeyed ==
    (Compared /\ BothWellFormed /\ A.kind = "slice" /\ B.kind = "slice"
        /\ ~(KeyedOnceNormalized(A) /\ KeyedOnceNormalized(B))
        /\ SameMultiset(NormalizedElements(A), NormalizedElements(B))
        /\ NormalizedElements(A) # NormalizedElements(B)) =>
        result = FALSE

C19_Witness ==
    /\ Compared /\ BothWellFormed /\ result = FALSE
    /\ A.kind = "slice" /\ Len(A.xs) = 2 /\ B.kind = "slice"
    /\ IsKeyedArray(JArr(<<A.xs[1]>>)) /\ ~IsKeyedArray(JArr(<<A.xs[2]>>))
    /\ B.xs = <<A.xs[2], A.xs[1]>>

\* a keyed array of two different elements with the same "key"
SameKeyPair(v) ==
    /\ IsKeyedArray(v) /\ Len(v.xs) = 2
    /\ v.xs[1].m["key"] = v.xs[2].m["key"]
    /\ v.xs[1] # v.xs[2]

\* C20: a keyed array of two different elements with the same "key"
\* compares equal to its permutation, and unequal to an array holding one
\* of the two twice or only one of them.
C20_SameKeyElementsDistinct ==
    Compared /\ BothWellFormed /\ SameKeyPair(A) /\ B.kind = "slice" =>
        /\ B.xs = <<A.xs[2], A.xs[1]>> => result = TRUE
        /\ B.xs \in {<<A.xs[1], A.xs[1]>>, <<A.xs[2], A.xs[2]>>,
                      <<A.xs[1]>>, <<A.xs[2]>>} => result = FALSE

(***************************************************************************)
(* What the plan modifier leaves alone.                                    *)
(***************************************************************************)
IsSet(v) == ~IsNull(v) /\ ~IsUnknown(v)

\* C24: the plan value is left as proposed whenever the state, config or
\* plan value is null or unknown, and whenever the state and config strings
\* are the same string, malformed ones included.
C24_PlanUntouchedWithoutComparison ==
    Modified =>
        /\ (~IsSet(req.StateValue) \/ ~IsSet(req.ConfigValue)
               \/ ~IsSet(req.PlanValue))
             => resp.PlanValue = req.PlanValue
        /\ (AllKnown(req)
               /\ ValueString(req.StateValue) = ValueString(req.ConfigValue))
             => resp.PlanValue = req.PlanValue

C24_Witness ==
    /\ Modified /\ AllKnown(req)
    /\ ValueString(req.StateValue) = ValueString(req.ConfigValue)
    /\ ValueString(req.StateValue) \in Malformed \ {<<>>}
    /\ resp.PlanValue = req.PlanValue

(***************************************************************************)
(* The policy of field names a caller means to have stripped.  The code    *)
(* takes no such argument, so the result of a call is the same under every *)
(* policy the caller may have in mind.                                     *)
(***************************************************************************)
Policies == SUBSET {"executeOnce", "disabled", "value"}

\* v is u without its entry k, a scalar, and still holds a scalar under a
\* key that no policy names
WithoutScalarEntry(u, v, k) ==
    /\ u.kind = "map" /\ v.kind = "map"
    /\ k \in DOMAIN u.m /\ DOMAIN v.m = DOMAIN u.m \ {k}
    /\ \A j \in DOMAIN v.m : v.m[j] = u.m[j]
    /\ IsScalar(u.m[k])
    /\ \E j \in DOMAIN v.m : IsScalar(v.m[j]) /\ j \notin UNION Policies

\* C21: under every policy the caller supplies, an object compares equal
\* to itself without one non-null entry exactly when the policy names that
\* entry's key.
C21_StrippedNamesAreThePolicy ==
    Compared /\ BothWellFormed =>
        \A policy \in Policies : \A k \in UNION Policies :
            WithoutScalarEntry(A, B, k) => (result = TRUE <=> k \in policy)

(***************************************************************************)
(* Nesting depth.  The code takes no limit on it; the only one in force is *)
(* the fixed limit inside encoding/json, far above every document here.    *)
(***************************************************************************)
Max(S) == CHOOSE x \in S : \A y \in S : y <= x

RECURSIVE Depth(_)
Depth(v) ==
    CASE v.kind = "map" ->
           1 + Max({0} \cup {Depth(v.m[k]) : k \in DOMAIN v.m})
      [] v.kind = "slice" ->
           1 + Max({0} \cup {Depth(v.xs[i]) : i \in 1..Len(v.xs)})
      [] OTHER -> 0

DepthLimits == {1, 2}

\* C23: under every configured depth limit, a document nested deeper than
\* the limit makes NormalizeJSON return an error and jsonSemanticEqual
\* return false.
C23_DepthLimitEnforced ==
    \A limit \in DepthLimits :
        /\ Normalized /\ a \in WellFormed /\ Depth(A) > limit => err
        /\ Compared /\ BothWellFormed
              /\ (Depth(A) > limit \/ Depth(B) > limit) => result = FALSE

(***************************************************************************)
(* jsonSemanticEqual as a relation, and NormalizeJSON under it.            *)
(***************************************************************************)
ComparedThree == call = "jsonSemanticEqual of three"

AllWellFormed == a \in WellFormed /\ b \in WellFormed /\ third \in WellFormed

\* C28: a well-formed text compares equal to itself, and when the first
\* text compares equal to the second and the second to the third, the first
\* compares equal to the third.
C28_ReflexiveAndTransitive ==
    ComparedThree /\ AllWellFormed =>
        /\ a = b => result = TRUE
        /\ result = TRUE /\ results.bc = TRUE => results.ac = TRUE

C28_Witness ==
    /\ ComparedThree /\ AllWellFormed
    /\ result = TRUE /\ results.bc = TRUE /\ results.ac = TRUE
    /\ A.kind = "slice" /\ B.kind = "slice" /\ DocOf[third].kind = "slice"
    /\ A # B /\ B # DocOf[third] /\ A # DocOf[third]
    /\ IsKeyedArray(B) /\ Len(B.xs) > 0 /\ ~IsKeyedArray(DocOf[third])

Canonical(text) == NormalizeJSON(text).out

\* C29: a well-formed text compares equal to its canonical form, and two
\* canonical forms compare as the texts they were made from.
C29_CanonicalFormComparesAlike ==
    ComparedThree /\ AllWellFormed /\ third = b =>
        /\ jsonSemanticEqual(a, Canonical(a)) = TRUE
        /\ jsonSemanticEqual(Canonical(a), Canonical(b)) = result

C29_Witness ==
    /\ ComparedThree /\ AllWellFormed /\ third = b /\ result = TRUE
    /\ A # B
    /\ Canonical(a) # a /\ Canonical(b) # b
    /\ Canonical(a) # Canonical(b)
    /\ jsonSemanticEqual(Canonical(a), Canonical(b)) = TRUE

(***************************************************************************)
(* What ModifyPlan does to the plan of an update.                          *)
(***************************************************************************)
PlanModified == call = "ModifyPlan"

BothExist == ~resourceReq.State.null /\ ~resourceReq.Plan.null

prior == resourceReq.State.model

planned == resourceReq.Plan.model

modified == resourceResp.Plan.model

\* a planned JSON attribute that is known and compares equal to the state's
SameJSON(plannedValue, priorValue) ==
    /\ ~IsUnknown(plannedValue) /\ ~IsUnknown(priorValue)
    /\ jsonSemanticEqual(ValueString(plannedValue), ValueString(priorValue))

\* C22: when state and plan both exist, name, active and settings are equal
\* and the planned nodes and connections are jsonSemanticEqual to the
\* state's, the resulting plan carries the state's version_id, updated_at,
\* nodes and connections.
C22_NoOpUpdateSuppressed ==
    (/\ PlanModified /\ BothExist
     /\ planned.Name = prior.Name /\ planned.Active = prior.Active
     /\ planned.Settings = prior.Settings
     /\ SameJSON(planned.Nodes, prior.Nodes)
     /\ SameJSON(planned.Connections, prior.Connections))
    => /\ modified.VersionId = prior.VersionId
       /\ modified.UpdatedAt = prior.UpdatedAt
       /\ modified.Nodes = prior.Nodes
       /\ modified.Connections = prior.Connections

C22_Witness ==
    /\ PlanModified /\ BothExist
    /\ planned.Name = prior.Name /\ planned.Active = prior.Active
    /\ planned.Settings = prior.Settings /\ ~prior.Settings.null
    /\ SameJSON(planned.Nodes, prior.Nodes)
    /\ SameJSON(planned.Connections, prior.Connections)
    /\ Unmarshal(ValueString(prior.Nodes)).val.kind = "map"
    /\ Unmarshal(ValueString(planned.Nodes)).val
         # Unmarshal(ValueString(prior.Nodes)).val
    /\ planned.Connections # prior.Connections
    /\ IsUnknown(planned.VersionId) /\ IsUnknown(planned.UpdatedAt)
    /\ modified.VersionId = prior.VersionId
    /\ modified.Nodes = prior.Nodes

\* C25: during create (no state) or destroy (no plan), and when name,
\* active, settings (a field of it, or its presence), nodes or connections
\* differ from the state, every plan attribute is left as proposed.
C25_PlanLeftAsProposed ==
    (/\ PlanModified
     /\ \/ resourceReq.State.null \/ resourceReq.Plan.null
        \/ planned.Name # prior.Name \/ planned.Active # prior.Active
        \/ planned.Settings # prior.Settings
        \/ ~SameJSON(planned.Nodes, prior.Nodes)
        \/ ~SameJSON(planned.Connections, prior.Connections))
    => resourceResp.Plan = resourceReq.Plan

\* the same, when the planned nodes and connections are known
PlanLeftAsProposedWhenKnown ==
    (/\ PlanModified
     /\ \/ resourceReq.State.null \/ resourceReq.Plan.null
        \/ planned.Name # prior.Name \/ planned.Active # prior.Active
        \/ planned.Settings # prior.Settings
        \/ ~IsUnknown(planned.Nodes) /\ ~SameJSON(planned.Nodes, prior.Nodes)
        \/ /\ ~IsUnknown(planned.Connections)
           /\ ~SameJSON(planned.Connections, prior.Connections))
    => resourceResp.Plan = resourceReq.Plan

\* C26: the planned nodes (connections) are replaced with the state value
\* only if the planned value is known and jsonSemanticEqual to the state
\* value; when either is planned unknown the plan is left as proposed.
C26_UnknownNeverOverwritten ==
    (PlanModified /\ BothExist) =>
        /\ modified.Nodes # planned.Nodes
             => SameJSON(planned.Nodes, prior.Nodes)
        /\ modified.Connections # planned.Connections
             => SameJSON(planned.Connections, prior.Connections)
        /\ (IsUnknown(planned.Nodes) \/ IsUnknown(planned.Connections))
             => resourceResp.Plan = resourceReq.Plan

(***************************************************************************)
(* The calls Create and Update make, and when they write the state.        *)
(***************************************************************************)
Applied == call \in {"Create", "Update"}

\* the planned nodes are no list of nodes: malformed, neither an array nor
\* null, or an array with an element that is neither an object nor null or
\* that holds an "id" that is no string or "parameters" that are no object;
\* or one of the lists with an "ID" that is a number, an "id" written twice
\* and once as a number, "parameters" written twice and once as a string,
\* a position written 1.0
NoNodes ==
    LET text == ValueString(planned.Nodes) IN
    \/ text \in Malformed
    \/ text \in {<<"[", "{", "\"ID\"", ":", "1", "}", "]">>,
                 <<"[", "{", "\"id\"", ":", "2", ",", "\"id\"", ":", "\"a\"", "}",
                   "]">>,
                 <<"[", "{", "\"parameters\"", ":", "\"a\"", ",",
                   "\"parameters\"", ":", "{", "\"id\"", ":", "1", "}", "}",
                   "]">>,
                 <<"[", "{", "\"position\"", ":", "[", "1.0", "]", "}", "]">>}
    \/ /\ text \in WellFormed
       /\ LET v == Unmarshal(text).val IN
          \/ v.kind \notin {"slice", "nil"}
          \/ /\ v.kind = "slice"
             /\ \E i \in 1..Len(v.xs) :
                  \/ v.xs[i].kind \notin {"map", "nil"}
                  \/ /\ v.xs[i].kind = "map"
                     /\ \/ /\ "id" \in DOMAIN v.xs[i].m
                           /\ v.xs[i].m["id"].kind \notin {"string", "nil"}
                        \/ /\ "parameters" \in DOMAIN v.xs[i].m
                           /\ v.xs[i].m["parameters"].kind \notin {"map", "nil"}

\* the planned connections are no map of connections
NoConnections ==
    ValueString(planned.Connections)
        \in {<<"{", "\"a\"", ":", "1", "}">>, <<"[", "]">>,
             <<"{", "invalid", "}">>,
             <<"{", "\"a\"", ":", "1", ",", "\"a\"", ":", "{", "}", "}">>}

\* the request was read without error and both texts were decoded
Decoded ==
    /\ ~planned.Settings.unknown
    /\ ~NoNodes /\ ~NoConnections

Saving == IF call = "Create" THEN "CreateWorkflow" ELSE "UpdateWorkflow"

\* the activation call the handler owes after saving, if any
Owed ==
    IF call = "Create"
    THEN IF planned.Active.value THEN <<"ActivateWorkflow">> ELSE <<>>
    ELSE IF planned.Active.value = prior.Active.value THEN <<>>
         ELSE IF planned.Active.value THEN <<"ActivateWorkflow">>
         ELSE <<"DeactivateWorkflow">>

\* C27: a nodes or connections text that does not parse makes no call and
\* writes no state; otherwise CreateWorkflow (UpdateWorkflow) is called
\* once and first; when it succeeds, ActivateWorkflow follows Create iff
\* the plan is active, and ActivateWorkflow or DeactivateWorkflow follows
\* Update iff plan.active differs from state.active, activating when the
\* plan is active; the state is written only if every call made succeeded.
\* While the handler waits for the saving call nothing has been called and
\* nothing written; while it waits for the activation call the saving call
\* is the one call made, it succeeded, the activation is owed, and nothing
\* has been written.
C27_CallsInOrder ==
    /\ Applied =>
        /\ (NoNodes \/ NoConnections)
             => apiCalls = <<>> /\ ~resourceResp.StateSet
        /\ Decoded =>
             /\ Len(apiCalls) >= 1 /\ apiCalls[1] = Saving
             /\ \A i \in 2..Len(apiCalls) : apiCalls[i] # Saving
             /\ Saving \in apiFails => apiCalls = <<Saving>>
             /\ Saving \notin apiFails => apiCalls = <<Saving>> \o Owed
        /\ resourceResp.StateSet =>
             \A i \in 1..Len(apiCalls) : apiCalls[i] \notin apiFails
    /\ call \in {"Create: CreateWorkflow", "Update: UpdateWorkflow"} =>
        /\ ~NoNodes /\ ~NoConnections
        /\ apiCalls = <<>> /\ ~resourceResp.StateSet
    /\ \A handler \in {"Create", "Update"},
          activation \in {"ActivateWorkflow", "DeactivateWorkflow"} :
          call = handler \o ": " \o activation =>
            /\ apiCalls = <<handler \o "Workflow">> /\ apiFails = {}
            /\ ~resourceResp.StateSet
            /\ activation = "ActivateWorkflow" <=> planned.Active.value
            /\ handler = "Update" => planned.Active.value # prior.Active.value

C27_Witness ==
    /\ call = "Update" /\ Decoded
    /\ ~planned.Active.value /\ prior.Active.value
    /\ Len(Unmarshal(ValueString(planned.Nodes)).val.xs) > 0
    /\ apiCalls = <<"UpdateWorkflow", "DeactivateWorkflow">>
    /\ apiFails = {}
    /\ resourceResp.StateSet

====
